---- MODULE Spec2Model ----
(***************************************************************************)
(* PDF layer extraction service (src/main.py).                             *)
(*                                                                         *)
(* The PDF provider (PyMuPDF) is an external collaborator.  A document is  *)
(* modelled by what the code asks of it: a cross-reference table of        *)
(* objects, the catalog's OCProperties/OCGs list, the pages' decoded       *)
(* content streams, the metadata, and the calls that raise.                *)
(*                                                                         *)
(* Python strings that the code takes apart (strip, substring test,        *)
(* f-string) are sequences of one-character strings.  PDF object text that *)
(* the code searches with regular expressions is a sequence of tokens.     *)
(***************************************************************************)
EXTENDS Integers, Sequences, FiniteSets, TLC

VARIABLES pc, arg, ret, handle, prev_ret

vars == <<pc, arg, ret, handle, prev_ret>>

(***************************************************************************)
(* Bounds of the model.                                                    *)
(***************************************************************************)
MaxXref == 3        \* xref entries of a document in the xref scan
MaxDocXref == 1     \* xref entries of an uploaded document
MaxCatalogOcgs == 1 \* references in the catalog's OCGs array
MaxPages == 1       \* pages of an uploaded document
MaxStatPages == 2   \* pages handed to the usage statistics
MaxPageLayers == 2  \* names on one page handed to the usage statistics

(***************************************************************************)
(* Python values.                                                          *)
(***************************************************************************)
None == <<>>
Some(v) == <<v>>
Val(o) == o[1]

\* truth value of an Optional[str]: None and '' are false
truthy_str(o) == o # None /\ Val(o) # <<>>

\* truth value of an Optional[token text]
truthy_obj(o) == o # None /\ Val(o) # <<>>

Digits == <<"0", "1", "2", "3", "4", "5", "6", "7", "8", "9">>

RECURSIVE str_int(_)
str_int(n) ==
    IF n < 10 THEN <<Digits[n + 1]>>
    ELSE str_int(n \div 10) \o <<Digits[(n % 10) + 1]>>

RECURSIVE lstrip(_, _)
lstrip(s, chars) ==
    IF s # <<>> /\ Head(s) \in chars THEN lstrip(Tail(s), chars) ELSE s

RECURSIVE rstrip(_, _)
rstrip(s, chars) ==
    IF s # <<>> /\ s[Len(s)] \in chars
    THEN rstrip(SubSeq(s, 1, Len(s) - 1), chars)
    ELSE s

strip(s, chars) == rstrip(lstrip(s, chars), chars)

\* sub in s
contains(s, sub) ==
    \E i \in 1..(Len(s) - Len(sub) + 1) : SubSeq(s, i, i + Len(sub) - 1) = sub

Range(s) == {s[i] : i \in 1..Len(s)}

(***************************************************************************)
(* PDF object text as tokens.  A name token /View is Nm("View"); a raw     *)
(* token carries the characters of a value the code handles as a string.   *)
(***************************************************************************)
Tok(k, v) == [k |-> k, v |-> v, s |-> <<>>]
Nm(v) == Tok("name", v)
Raw(s) == [k |-> "raw", v |-> "", s |-> s]
LBr == Tok("[", "")
RBr == Tok("]", "")
LDict == Tok("<<", "")
RDict == Tok(">>", "")

\* re.findall(r'/(\w+)', text)
RECURSIVE findall_names(_)
findall_names(toks) ==
    IF toks = <<>> THEN <<>>
    ELSE (IF Head(toks).k = "name" THEN <<Head(toks).v>> ELSE <<>>)
         \o findall_names(Tail(toks))

\* index of the first token of kind k at or after position i, 0 when none
RECURSIVE find_kind(_, _, _)
find_kind(toks, k, i) ==
    IF i > Len(toks) THEN 0
    ELSE IF toks[i].k = k THEN i
    ELSE find_kind(toks, k, i + 1)

\* re.search(r'/Key\s*OPEN(.*?)CLOSE', text): the group of the leftmost
\* match, as Some(tokens), or None
RECURSIVE search_group(_, _, _, _, _)
search_group(toks, key, open, close, i) ==
    IF i + 1 > Len(toks) THEN None
    ELSE IF /\ toks[i].k = "name"
            /\ toks[i].v = key
            /\ toks[i + 1].k = open
            /\ find_kind(toks, close, i + 2) # 0
         THEN Some(SubSeq(toks, i + 2, find_kind(toks, close, i + 2) - 1))
         ELSE search_group(toks, key, open, close, i + 1)

\* names that have '/Print' (resp. '/View', '/Export') as a prefix of their text
prefixed(key) ==
    CASE key = "Print" -> {"Print", "PrintState", "PrintState/ON", "PrintState/OFF"}
      [] key = "View" -> {"View", "ViewState", "ViewState/ON", "ViewState/OFF"}
      [] key = "Export" -> {"Export", "ExportState", "ExportState/ON", "ExportState/OFF"}

has_name(toks, names) ==
    \E i \in 1..Len(toks) : toks[i].k = "name" /\ toks[i].v \in names

state_on(key) ==
    CASE key = "Print" -> "PrintState/ON"
      [] key = "View" -> "ViewState/ON"
      [] key = "Export" -> "ExportState/ON"

usage_key(key) ==
    CASE key = "Print" -> "print"
      [] key = "View" -> "view"
      [] key = "Export" -> "export"

UsageKeys == {"Print", "View", "Export"}

\* the usage entry of one purpose: Some(<<key, state>>) or None
usage_entry(usage_str, key) ==
    IF has_name(usage_str, prefixed(key))
    THEN LET m == search_group(usage_str, key, "<<", ">>", 1)
         IN  IF m # None
             THEN Some(IF has_name(Val(m), {state_on(key)}) THEN "ON" ELSE "OFF")
             ELSE None
    ELSE None

parse_usage_dict(usage_str) ==
    LET found == {key \in UsageKeys : usage_entry(usage_str, key) # None}
        of(k) == CHOOSE key \in found : usage_key(key) = k
    IN  [k \in {usage_key(key) : key \in found} |-> Val(usage_entry(usage_str, of(k)))]

parse_intent_from_obj(intent_obj) ==
    IF truthy_obj(intent_obj) THEN findall_names(Val(intent_obj)) ELSE <<>>

parse_usage_from_obj(usage_obj) ==
    IF truthy_obj(usage_obj) THEN parse_usage_dict(Val(usage_obj)) ELSE <<>>

(***************************************************************************)
(* The provider: cross-reference table.  Entry number xref is              *)
(* pdf_doc.xref[xref + 1].  bad names the lookup that raises on the entry: *)
(* a key of xref_get_key, "object" for xref_get_object, or "none".         *)
(***************************************************************************)
xref_length(pdf_doc) == Len(pdf_doc.xref)

xref_entry(pdf_doc, xref) == pdf_doc.xref[xref + 1]

xref_get_key_raises(pdf_doc, xref, key) == xref_entry(pdf_doc, xref).bad = key

xref_get_key(pdf_doc, xref, key) ==
    CASE key = "Type" -> xref_entry(pdf_doc, xref).Type
      [] key = "Name" -> xref_entry(pdf_doc, xref).Name
      [] key = "Intent" -> xref_entry(pdf_doc, xref).Intent
      [] key = "Usage" -> xref_entry(pdf_doc, xref).Usage

OCG == <<"O", "C", "G">>
Layer_ == <<"L", "a", "y", "e", "r", "_">>
StripChars == {"(", ")", "/", "\""}

\* the condition of line 351 without the test for "OCG"
is_typed_entry(pdf_doc, xref) ==
    truthy_str(xref_get_key(pdf_doc, xref, "Type"))

\* the condition of line 351
is_ocg_entry(pdf_doc, xref) ==
    LET obj_type == xref_get_key(pdf_doc, xref, "Type")
    IN  truthy_str(obj_type) /\ contains(Val(obj_type), OCG)

\* an exception is raised inside the try of lines 349-369
xref_body_raises(pdf_doc, xref) ==
    \/ xref_get_key_raises(pdf_doc, xref, "Type")
    \/ /\ is_ocg_entry(pdf_doc, xref)
       /\ \E key \in {"Name", "Intent", "Usage"} :
              xref_get_key_raises(pdf_doc, xref, key)

\* lines 353-367
xref_layer_data(pdf_doc, xref) ==
    LET name_obj == xref_get_key(pdf_doc, xref, "Name")
        intent_obj == xref_get_key(pdf_doc, xref, "Intent")
        usage_obj == xref_get_key(pdf_doc, xref, "Usage")
        layer_name == IF truthy_str(name_obj)
                      THEN strip(Val(name_obj), StripChars)
                      ELSE Layer_ \o str_int(xref)
    IN  [name |-> layer_name,
         visible |-> TRUE,
         locked |-> FALSE,
         ocg_ref |-> str_int(xref),
         intent |-> parse_intent_from_obj(intent_obj),
         usage |-> parse_usage_from_obj(usage_obj),
         xref_number |-> xref]

\* the loop of lines 348-373 from index xref on, the failure of an entry
\* ending the scan
RECURSIVE xref_loop_abort(_, _)
xref_loop_abort(pdf_doc, xref) ==
    IF xref >= xref_length(pdf_doc) THEN <<>>
    ELSE IF xref_body_raises(pdf_doc, xref) THEN <<>>
    ELSE (IF is_ocg_entry(pdf_doc, xref)
          THEN <<xref_layer_data(pdf_doc, xref)>>
          ELSE <<>>) \o xref_loop_abort(pdf_doc, xref + 1)

\* the loop of lines 348-373 from index xref on
RECURSIVE xref_loop(_, _)
xref_loop(pdf_doc, xref) ==
    IF xref >= xref_length(pdf_doc) THEN <<>>
    ELSE (IF xref_body_raises(pdf_doc, xref) THEN <<>>
          ELSE IF is_ocg_entry(pdf_doc, xref)
               THEN <<xref_layer_data(pdf_doc, xref)>>
               ELSE <<>>) \o xref_loop(pdf_doc, xref + 1)

extract_layers_from_xref(pdf_doc) ==
    IF pdf_doc.xref_length_raises THEN <<>> ELSE xref_loop(pdf_doc, 0)

(***************************************************************************)
(* Objects of the documents.                                               *)
(***************************************************************************)
T_OCG == <<"/", "O", "C", "G">>
T_Page == <<"/", "P", "a", "g", "e">>
N_A == <<"(", "A", ")">>
N_B == <<"(", "B", ")">>
N_Empty == <<"(", ")">>
N_SlashA == <<"/", "A">>
I_View == <<LBr, Nm("View"), RBr>>
I_ViewDesign == <<LBr, Nm("View"), Nm("Design"), RBr>>
I_BareDesign == <<Nm("Design")>>
U_PrintOn == <<LDict, Nm("Print"), LDict, Nm("PrintState/ON"), RDict, RDict>>
U_ViewOff == <<LDict, Nm("View"), LDict, Nm("ViewState"), Nm("OFF"), RDict, RDict>>

Obj(type, name, intent, usage, bad) ==
    [Type |-> type, Name |-> name, Intent |-> intent, Usage |-> usage, bad |-> bad]

\* objects of the xref scan
XrefObjPool ==
    {Obj(Some(T_OCG), n, i, None, b) :
        n \in {None, Some(N_A), Some(N_Empty)},
        i \in {None, Some(I_View)},
        b \in {"none", "Type", "Name"}}
    \cup {Obj(Some(T_Page), Some(N_B), None, None, "none"),
          Obj(Some(T_Page), Some(N_B), None, None, "Name"),
          Obj(None, None, None, None, "none"),
          Obj(Some(<<>>), Some(N_B), None, None, "none"),
          Obj(Some(T_OCG), Some(N_SlashA), Some(I_BareDesign), Some(U_PrintOn), "none"),
          Obj(Some(T_OCG), Some(N_B), Some(I_ViewDesign), Some(U_ViewOff), "Intent")}

SeqsUpTo(S, n) == UNION {[1..k -> S] : k \in 0..n}

XrefDocs ==
    {[xref |-> t, xref_length_raises |-> FALSE] : t \in SeqsUpTo(XrefObjPool, MaxXref)}
    \cup {[xref |-> <<o>>, xref_length_raises |-> TRUE] : o \in XrefObjPool}

(***************************************************************************)
(* The xref scan on its own: extract_layers_from_xref applied to a         *)
(* document.                                                               *)
(***************************************************************************)
InitXref ==
    /\ pc = "xref_call"
    /\ arg \in XrefDocs
    /\ ret = None
    /\ handle = "none"
    /\ prev_ret = None

XrefScan ==
    /\ pc = "xref_call"
    /\ ret' = extract_layers_from_xref(arg)
    /\ pc' = "xref_return"
    /\ UNCHANGED <<arg, handle, prev_ret>>

NextXref == XrefScan

SpecXref == InitXref /\ [][NextXref]_vars

\* the indexes of the scan whose Type contains "OCG" and whose lookups succeed
ReadableOcgIndexes(pdf_doc) ==
    {x \in 0..(Len(pdf_doc.xref) - 1) :
        /\ pdf_doc.xref[x + 1].bad \notin {"Type", "Name", "Intent", "Usage"}
        /\ pdf_doc.xref[x + 1].Type # None
        /\ \E i \in 1..Len(pdf_doc.xref[x + 1].Type[1]) - 2 :
               /\ pdf_doc.xref[x + 1].Type[1][i] = "O"
               /\ pdf_doc.xref[x + 1].Type[1][i + 1] = "C"
               /\ pdf_doc.xref[x + 1].Type[1][i + 2] = "G"}

\* C7: in the xref scan a failing index is skipped alone: the result holds
\* exactly one record per readable OCG-typed index, in index order, wherever
\* the failing entries are and however many there are.
C7_FailureSkipsOnlyThatIndex ==
    (pc = "xref_return" /\ ~arg.xref_length_raises) =>
        /\ {ret[i].xref_number : i \in 1..Len(ret)} = ReadableOcgIndexes(arg)
        /\ \A i, j \in 1..Len(ret) : i < j => ret[i].xref_number < ret[j].xref_number

\* a scan with a failing entry before, between and after readable OCG entries
C7_Witness ==
    /\ pc = "xref_return"
    /\ Len(arg.xref) >= 3
    /\ \E x \in 0..(Len(arg.xref) - 1) :
           /\ arg.xref[x + 1].bad \in {"Type", "Name"}
           /\ arg.xref[x + 1].Type = Some(T_OCG)
           /\ \E y \in ReadableOcgIndexes(arg) : y > x
    /\ Len(ret) >= 2

(***************************************************************************)
(* Usage statistics (calculate_layer_usage_stats).  A Python dict is a     *)
(* sequence of <<key, value>> pairs in insertion order.                    *)
(***************************************************************************)
TopN == 3

Min(a, b) == IF a < b THEN a ELSE b
Max(a, b) == IF a > b THEN a ELSE b

\* layer_usage_count[layer] = layer_usage_count.get(layer, 0) + 1
dict_incr(d, key) ==
    IF \E i \in 1..Len(d) : d[i][1] = key
    THEN [i \in 1..Len(d) |-> IF d[i][1] = key THEN <<key, d[i][2] + 1>> ELSE d[i]]
    ELSE Append(d, <<key, 1>>)

\* the inner loop of lines 498-499
RECURSIVE count_layers(_, _)
count_layers(d, layers) ==
    IF layers = <<>> THEN d
    ELSE count_layers(dict_incr(d, Head(layers)), Tail(layers))

\* the loop of lines 497-499
RECURSIVE count_pages(_, _)
count_pages(d, pages_with_layers) ==
    IF pages_with_layers = <<>> THEN d
    ELSE count_pages(count_layers(d, Head(pages_with_layers).layers),
                     Tail(pages_with_layers))

\* one step of a sort by descending count that puts an item before the
\* items of equal count
insert_desc_unstable(acc, x) ==
    LET k == Cardinality({i \in 1..Len(acc) : acc[i][2] > x[2]})
    IN  SubSeq(acc, 1, k) \o <<x>> \o SubSeq(acc, k + 1, Len(acc))

\* one step of the stable sort by descending count: the item goes after the
\* items of greater or equal count
insert_desc(acc, x) ==
    LET k == Cardinality({i \in 1..Len(acc) : acc[i][2] >= x[2]})
    IN  SubSeq(acc, 1, k) \o <<x>> \o SubSeq(acc, k + 1, Len(acc))

RECURSIVE sort_into(_, _)
sort_into(acc, items) ==
    IF items = <<>> THEN acc
    ELSE sort_into(insert_desc(acc, Head(items)), Tail(items))

\* sorted(items, key=lambda x: x[1], reverse=True)
sorted_by_count_desc(items) == sort_into(<<>>, items)

\* s[:n] and s[-n:]
slice_first(s, n) == SubSeq(s, 1, Min(n, Len(s)))
slice_last(s, n) == SubSeq(s, Max(1, Len(s) - n + 1), Len(s))

calculate_layer_usage_stats(layers, pages_with_layers, total_pages) ==
    LET layer_usage_count == count_pages(<<>>, pages_with_layers)
        sorted_layers == sorted_by_count_desc(layer_usage_count)
    IN  [total_layers |-> Len(layers),
         pages_with_layers |-> Len(pages_with_layers),
         pages_without_layers |-> total_pages - Len(pages_with_layers),
         layer_distribution |-> layer_usage_count,
         most_used_layers |-> slice_first(sorted_layers, TopN),
         least_used_layers |-> slice_last(sorted_layers, TopN)]

(***************************************************************************)
(* The usage statistics on their own: calculate_layer_usage_stats applied  *)
(* to the page records analyze_pages_for_layers can build.                 *)
(***************************************************************************)
NamePool == {"MC0", "MC1", "MC2", "MC3"}

\* the lists without repetition over a set
Orderings(S) ==
    {f \in [1..Cardinality(S) -> S] : \A i, j \in 1..Cardinality(S) : i # j => f[i] # f[j]}

PageLayerLists ==
    UNION {Orderings(S) : S \in {T \in SUBSET NamePool : Cardinality(T) <= MaxPageLayers}}

\* the records of lines 432-436 for the per-page lists by_page (an empty list:
\* the page has no record)
RECURSIVE page_records(_, _)
page_records(by_page, page_num) ==
    IF page_num >= Len(by_page) THEN <<>>
    ELSE (IF by_page[page_num + 1] # <<>>
          THEN <<[page_number |-> page_num + 1,
                  layers |-> by_page[page_num + 1],
                  layer_count |-> Len(by_page[page_num + 1])]>>
          ELSE <<>>) \o page_records(by_page, page_num + 1)

StatArgs ==
    {[layers |-> <<>>,
      pages_with_layers |-> page_records(by_page, 0),
      total_pages |-> MaxStatPages] :
        by_page \in [1..MaxStatPages -> PageLayerLists]}

InitStats ==
    /\ pc = "stats_call"
    /\ arg \in StatArgs
    /\ ret = None
    /\ handle = "none"
    /\ prev_ret = None

UsageStats ==
    /\ pc = "stats_call"
    /\ ret' = calculate_layer_usage_stats(arg.layers, arg.pages_with_layers, arg.total_pages)
    /\ pc' = "stats_return"
    /\ UNCHANGED <<arg, handle, prev_ret>>

NextStats == UsageStats

SpecStats == InitStats /\ [][NextStats]_vars

\* the names on the pages
StatNames(pages) == UNION {Range(pages[p].layers) : p \in 1..Len(pages)}

\* the number of pages that name n
PageCount(pages, n) == Cardinality({p \in 1..Len(pages) : n \in Range(pages[p].layers)})

\* where n is first met: <<page, position in the page's list>>
FirstMet(pages, n) ==
    LET p == CHOOSE q \in 1..Len(pages) :
                 /\ n \in Range(pages[q].layers)
                 /\ \A r \in 1..(q - 1) : n \notin Range(pages[r].layers)
    IN  <<p, CHOOSE i \in 1..Len(pages[p].layers) : pages[p].layers[i] = n>>

dict_has(d, key) == \E i \in 1..Len(d) : d[i][1] = key
dict_get(d, key) == d[CHOOSE i \in 1..Len(d) : d[i][1] = key][2]
dict_set(d, key, val) ==
    IF dict_has(d, key)
    THEN [i \in 1..Len(d) |-> IF d[i][1] = key THEN <<key, val>> ELSE d[i]]
    ELSE Append(d, <<key, val>>)
dict_values(d) == [i \in 1..Len(d) |-> d[i][2]]

opt_tokens(key, o) == IF o = None THEN <<>> ELSE <<Nm(key)>> \o Val(o)
opt_raw(key, o) == IF o = None THEN <<>> ELSE <<Nm(key), Raw(Val(o))>>

\* the text of an object, as xref_get_object returns it
obj_text(o) ==
    <<LDict>> \o opt_raw("Type", o.Type) \o opt_raw("Name", o.Name)
        \o opt_tokens("Intent", o.Intent) \o opt_tokens("Usage", o.Usage) \o <<RDict>>

xref_get_object_raises(pdf_doc, xref) ==
    \/ xref < 0
    \/ xref >= xref_length(pdf_doc)
    \/ xref_entry(pdf_doc, xref).bad = "object"

xref_get_object(pdf_doc, xref) == obj_text(xref_entry(pdf_doc, xref))

\* position of the first ")" of s at or after i, 0 when none
RECURSIVE find_char(_, _, _)
find_char(s, c, i) ==
    IF i > Len(s) THEN 0
    ELSE IF s[i] = c THEN i
    ELSE find_char(s, c, i + 1)

\* re.search(r'/Name\s*\((.*?)\)', ocg_obj): the group, as Some(chars), or None
RECURSIVE search_name(_, _)
search_name(toks, i) ==
    IF i + 1 > Len(toks) THEN None
    ELSE IF /\ toks[i].k = "name"
            /\ toks[i].v = "Name"
            /\ toks[i + 1].k = "raw"
            /\ toks[i + 1].s # <<>>
            /\ toks[i + 1].s[1] = "("
            /\ find_char(toks[i + 1].s, ")", 2) # 0
         THEN Some(SubSeq(toks[i + 1].s, 2, find_char(toks[i + 1].s, ")", 2) - 1))
         ELSE search_name(toks, i + 1)

UnknownLayer == <<"U", "n", "k", "n", "o", "w", "n", " ", "L", "a", "y", "e", "r">>

parse_ocg_object(ocg_obj) ==
    LET name_match == search_name(ocg_obj, 1)
        intent_match == search_group(ocg_obj, "Intent", "[", "]", 1)
        usage_match == search_group(ocg_obj, "Usage", "<<", ">>", 1)
    IN  [name |-> IF name_match # None THEN Val(name_match) ELSE UnknownLayer,
         visible |-> TRUE,
         locked |-> FALSE,
         intent |-> IF intent_match # None THEN findall_names(Val(intent_match)) ELSE <<>>,
         usage |-> IF usage_match # None THEN parse_usage_dict(Val(usage_match)) ELSE <<>>,
         creator_info |-> <<>>]

\* the loop of lines 215-221 over the references ocgs
RECURSIVE ocgs_loop(_, _, _)
ocgs_loop(pdf_doc, d, ocgs) ==
    IF ocgs = <<>> THEN d
    ELSE ocgs_loop(pdf_doc,
                   IF xref_get_object_raises(pdf_doc, Head(ocgs)) THEN d
                   ELSE dict_set(d, str_int(Head(ocgs)),
                                 parse_ocg_object(xref_get_object(pdf_doc, Head(ocgs)))),
                   Tail(ocgs))

\* the documents of the model have no /D and no /Configs entry
extract_ocg_catalog_info(pdf_doc) ==
    LET catalog == pdf_doc.catalog
    IN  [ocgs |-> IF catalog.OCProperties # None /\ Val(catalog.OCProperties).OCGs # None
                  THEN ocgs_loop(pdf_doc, <<>>, Val(Val(catalog.OCProperties).OCGs))
                  ELSE <<>>,
         default_config |-> <<>>,
         alternate_configs |-> <<>>]

(***************************************************************************)
(* Page analysis (extract_page_layer_details, analyze_pages_for_layers).   *)
(* A content stream is a sequence of tokens; the token "ref" is an         *)
(* indirect reference `n g R`.                                             *)
(***************************************************************************)
is_name(toks, i) == i <= Len(toks) /\ toks[i].k = "name"
is_oc(toks, i) == is_name(toks, i) /\ toks[i].v = "OC"

\* re.findall(r'/OC\s*/(\w+)', content) from position i on
RECURSIVE findall_oc(_, _)
findall_oc(toks, i) ==
    IF i > Len(toks) THEN <<>>
    ELSE IF is_oc(toks, i) /\ is_name(toks, i + 1)
         THEN <<toks[i + 1].v>> \o findall_oc(toks, i + 2)
         ELSE findall_oc(toks, i + 1)

\* re.findall(r'BDC\s*/OC\s*/(\w+)', content) from position i on
RECURSIVE findall_bdc(_, _)
findall_bdc(toks, i) ==
    IF i > Len(toks) THEN <<>>
    ELSE IF toks[i].k = "BDC" /\ is_oc(toks, i + 1) /\ is_name(toks, i + 2)
         THEN <<toks[i + 2].v>> \o findall_bdc(toks, i + 3)
         ELSE findall_bdc(toks, i + 1)

\* position of the first name followed by a reference at or after i, 0 when none
RECURSIVE find_named_ref(_, _)
find_named_ref(toks, i) ==
    IF i + 1 > Len(toks) THEN 0
    ELSE IF toks[i].k = "name" /\ toks[i + 1].k = "ref" THEN i
    ELSE find_named_ref(toks, i + 1)

\* re.findall(r'/Properties\s*<<.*?/(\w+)\s*\d+\s+\d+\s+R.*?>>', content)
RECURSIVE findall_properties(_, _)
findall_properties(toks, i) ==
    IF i + 1 > Len(toks) THEN <<>>
    ELSE LET j == find_named_ref(toks, i + 2)
             e == IF j = 0 THEN 0 ELSE find_kind(toks, ">>", j + 2)
         IN  IF /\ is_name(toks, i)
                /\ toks[i].v = "Properties"
                /\ toks[i + 1].k = "<<"
                /\ e # 0
             THEN <<toks[j].v>> \o findall_properties(toks, e + 1)
             ELSE findall_properties(toks, i + 1)

\* the loop of lines 458-475: the matches of all streams of the page
RECURSIVE stream_matches(_)
stream_matches(content_streams) ==
    IF content_streams = <<>> THEN <<>>
    ELSE findall_oc(Head(content_streams), 1)
         \o findall_bdc(Head(content_streams), 1)
         \o findall_properties(Head(content_streams), 1)
         \o stream_matches(Tail(content_streams))

\* set(layers) of line 480
page_layer_set(page) == Range(stream_matches(page.contents))

\* list(set(layers)): the order of a set of str is the order of the hashes,
\* which the interpreter seeds at start-up; order is the list the set yields
\* in this process, one of Orderings(page_layer_set(page))
extract_page_layer_details(page, order) ==
    [i \in 1..Cardinality(page_layer_set(page)) |-> order[i]]

\* the lists list(set(layers)) can yield for the pages, page by page
RECURSIVE PageOrders(_)
PageOrders(pages) ==
    IF pages = <<>> THEN {<<>>}
    ELSE {<<o>> \o rest : o \in Orderings(page_layer_set(Head(pages))),
                          rest \in PageOrders(Tail(pages))}

page_count_raises(pdf_doc, site) == pdf_doc.fault \in {site, "page_count"}

page_count(pdf_doc) == Len(pdf_doc.pages)

\* pages_with_layers of analyze_pages_for_layers; a page that cannot be
\* loaded is skipped
analyze_pages_for_layers(pdf_doc, orders) ==
    page_records([i \in 1..page_count(pdf_doc) |->
                     IF pdf_doc.pages[i].raises THEN <<>>
                     ELSE extract_page_layer_details(pdf_doc.pages[i], orders[i])], 0)

(***************************************************************************)
(* extract_comprehensive_layers.  A layer record is a function from its    *)
(* keys to their values.                                                   *)
(***************************************************************************)
\* `if v` of line 162 for the value v of key k of an xref layer record
truthy_field(k, v) ==
    CASE k \in {"visible", "locked"} -> v
      [] k = "xref_number" -> v # 0
      [] k = "usage" -> DOMAIN v # {}
      [] OTHER -> v # <<>>

\* {k: v for k, v in layer_data.items() if v}
truthy_items(layer_data) ==
    [k \in {f \in DOMAIN layer_data : truthy_field(f, layer_data[f])} |-> layer_data[k]]

\* d.update(e)
dict_update(d, e) ==
    [k \in DOMAIN d \cup DOMAIN e |-> IF k \in DOMAIN e THEN e[k] ELSE d[k]]

\* the loop of lines 143-155
RECURSIVE catalog_layers(_, _)
catalog_layers(all_layers, ocgs) ==
    IF ocgs = <<>> THEN all_layers
    ELSE LET ocg_ref == Head(ocgs)[1]
             ocg_data == Head(ocgs)[2]
             layer_name == ocg_data.name
         IN  catalog_layers(
                 dict_set(all_layers, layer_name,
                          [name |-> layer_name,
                           ocg_ref |-> ocg_ref,
                           visible |-> ocg_data.visible,
                           locked |-> ocg_data.locked,
                           intent |-> ocg_data.intent,
                           usage |-> ocg_data.usage,
                           creator_info |-> ocg_data.creator_info,
                           source |-> "OCG_catalog"]),
                 Tail(ocgs))

\* lines 159-165 with every xref layer record added as a new entry, a name
\* the catalog pass already produced included
append_xref_layer(all_layers, layer_data) ==
    Append(all_layers,
           <<layer_data.name, dict_update(layer_data, [source |-> "xref_table"])>>)

\* lines 159-165 for one xref layer record
merge_xref_layer(all_layers, layer_data) ==
    IF dict_has(all_layers, layer_data.name)
    THEN dict_set(all_layers, layer_data.name,
                  dict_update(dict_get(all_layers, layer_data.name),
                              truthy_items(layer_data)))
    ELSE dict_set(all_layers, layer_data.name,
                  dict_update(layer_data, [source |-> "xref_table"]))

\* the loop of lines 158-166
RECURSIVE xref_layers_merged(_, _)
xref_layers_merged(all_layers, xref_layers) ==
    IF xref_layers = <<>> THEN all_layers
    ELSE xref_layers_merged(merge_xref_layer(all_layers, Head(xref_layers)),
                            Tail(xref_layers))

Unknown == "Unknown"

metadata_get(pdf_doc, key) ==
    IF key \in DOMAIN Val(pdf_doc.metadata) THEN Val(pdf_doc.metadata)[key] ELSE Unknown

\* pdf_doc.metadata is None when the document was opened without its password
metadata_is_none(pdf_doc) == pdf_doc.metadata = None

extract_layer_configurations(pdf_doc) ==
    IF metadata_is_none(pdf_doc) THEN <<>>
    ELSE <<[name |-> "Default Configuration",
            base_state |-> "ON",
            creator |-> metadata_get(pdf_doc, "creator"),
            description |-> "Default layer visibility configuration"]>>

\* the calls that raise are given by pdf_doc.fault; a raised exception is
\* [raised |-> TRUE]
extract_basic_layers_raises(pdf_doc) ==
    page_count_raises(pdf_doc, "basic") \/ metadata_is_none(pdf_doc)

extract_basic_layers(pdf_doc) ==
    [has_layers |-> FALSE,
     layer_count |-> 0,
     layers |-> <<>>,
     ocg_info |-> <<>>,
     layer_configurations |-> <<>>,
     pages_with_layers |-> <<>>,
     total_pages |-> page_count(pdf_doc),
     pdf_version |-> Unknown,
     creator |-> metadata_get(pdf_doc, "creator"),
     producer |-> metadata_get(pdf_doc, "producer"),
     layer_usage_analysis |-> <<>>]

Raised == [raised |-> TRUE]
Returned(v) == [raised |-> FALSE, value |-> v]

extract_comprehensive_layers(pdf_doc, orders) ==
    LET ocg_info == extract_ocg_catalog_info(pdf_doc)
        xref_layers == extract_layers_from_xref(pdf_doc)
        layer_configurations == extract_layer_configurations(pdf_doc)
        pages_with_layers == analyze_pages_for_layers(pdf_doc, orders)
        all_layers == xref_layers_merged(catalog_layers(<<>>, ocg_info.ocgs), xref_layers)
        layer_names == {all_layers[i][1] : i \in 1..Len(all_layers)}
        layers == dict_values(all_layers)
        try_raises == \/ page_count_raises(pdf_doc, "analyze")
                      \/ page_count_raises(pdf_doc, "stats")
    IN  IF try_raises
        THEN IF extract_basic_layers_raises(pdf_doc) THEN Raised
             ELSE Returned(extract_basic_layers(pdf_doc))
        ELSE IF page_count_raises(pdf_doc, "result") \/ metadata_is_none(pdf_doc)
        THEN Raised
        ELSE Returned(
            [has_layers |-> Cardinality(layer_names) > 0,
             layer_count |-> Cardinality(layer_names),
             layers |-> layers,
             ocg_info |-> ocg_info,
             layer_configurations |-> layer_configurations,
             pages_with_layers |-> pages_with_layers,
             total_pages |-> page_count(pdf_doc),
             pdf_version |-> Unknown,
             creator |-> metadata_get(pdf_doc, "creator"),
             producer |-> metadata_get(pdf_doc, "producer"),
             layer_usage_analysis |->
                 calculate_layer_usage_stats(layers, pages_with_layers, page_count(pdf_doc))])

(***************************************************************************)
(* POST /extract-layers.  The handler's result is the response and the     *)
(* state the document handle is left in.                                   *)
(***************************************************************************)
HTTPException(status_code, detail) ==
    [status |-> status_code, detail |-> detail, body |-> None]

JSONResponse(content) == [status |-> 200, detail |-> "", body |-> Some(content)]

Outcome(response, h) == [response |-> response, handle |-> h]

extract_layers(file, orders) ==
    IF ~file.filename_pdf
    THEN Outcome(HTTPException(400, "Alleen PDF-bestanden zijn toegestaan"), "none")
    ELSE IF file.content.kind = "empty"
    \* the HTTPException(400) of line 71 is raised inside the try and caught
    \* by the `except Exception` of line 99
    THEN Outcome(HTTPException(500, "Fout bij verwerken PDF: 400: Leeg bestand ontvangen"),
                 "none")
    ELSE IF file.content.kind = "garbage"
    THEN Outcome(HTTPException(400, "Ongeldig PDF-bestand"), "none")
    ELSE LET layer_info == extract_comprehensive_layers(file.content.doc, orders)
         IN  IF layer_info.raised
             THEN Outcome(HTTPException(500, "Fout bij verwerken PDF"), "open")
             ELSE Outcome(JSONResponse(layer_info.value), "closed")

(***************************************************************************)
(* Uploaded files.                                                         *)
(***************************************************************************)
DocObjPool ==
    {Obj(Some(T_OCG), Some(N_A), Some(I_View), Some(U_PrintOn), "none"),
     Obj(Some(T_OCG), Some(N_A), Some(I_BareDesign), None, "none"),
     Obj(Some(T_OCG), Some(N_Empty), None, None, "none"),
     Obj(Some(T_OCG), None, None, None, "none"),
     Obj(Some(T_OCG), Some(N_B), Some(I_ViewDesign), None, "object"),
     Obj(Some(T_OCG), Some(N_B), None, None, "Name"),
     Obj(Some(T_Page), Some(N_B), None, None, "none")}

Op == Tok("op", "")
BDC == Tok("BDC", "")
Ref == Tok("ref", "")
S_Plain == <<Op, Op>>
S_One == <<Nm("OC"), Nm("MC0"), BDC, Op, Tok("EMC", "")>>
S_Two == <<Nm("OC"), Nm("MC1"), BDC, Op, Tok("EMC", ""), BDC, Nm("OC"), Nm("MC0"), Op>>
S_Props == <<Nm("Properties"), LDict, Nm("MC2"), Ref, Nm("MC3"), Ref, RDict, Op>>

Page(contents, raises) == [contents |-> contents, raises |-> raises]

PagePool ==
    {Page(<<S_Plain>>, FALSE), Page(<<S_One>>, FALSE), Page(<<S_Two>>, FALSE),
     Page(<<S_Props, S_One>>, FALSE), Page(<<S_Two>>, TRUE)}

\* the lists of distinct references into a table of n entries
RefLists(n) ==
    {r \in SeqsUpTo(0..(n - 1), MaxCatalogOcgs) :
        \A i, j \in 1..Len(r) : i # j => r[i] # r[j]}

Catalogs(n) ==
    {[OCProperties |-> None], [OCProperties |-> Some([OCGs |-> None])]}
    \cup {[OCProperties |-> Some([OCGs |-> Some(r)])] : r \in RefLists(n)}

Metadata == Some([creator |-> "cad", producer |-> "lib"])

\* the call of the provider that raises: page_count at one site or at all of
\* them, or metadata is None (a document opened without its password)
Faults == {"none", "analyze", "stats", "result", "page_count", "metadata"}

Docs ==
    {[xref |-> t, xref_length_raises |-> FALSE, catalog |-> c, pages |-> p,
      metadata |-> IF f = "metadata" THEN None ELSE Metadata, fault |-> f] :
        t \in SeqsUpTo(DocObjPool, MaxDocXref), c \in Catalogs(MaxDocXref),
        p \in SeqsUpTo(PagePool, MaxPages), f \in Faults}

Content(kind, doc) == [kind |-> kind, doc |-> doc]

Files ==
    {[filename_pdf |-> TRUE, content |-> Content("pdf", Some(d))] : d \in Docs}
    \cup {[filename_pdf |-> b, content |-> Content(k, None)] :
            b \in BOOLEAN, k \in {"empty", "garbage"}}
    \cup {[filename_pdf |-> FALSE, content |-> Content("pdf", Some(d))] :
            d \in {x \in Docs : x.xref = <<>> /\ x.pages = <<>> /\ x.fault = "none"}}

\* the file as the handler reads it
Upload(file) ==
    [filename_pdf |-> file.filename_pdf,
     content |-> [kind |-> file.content.kind,
                  doc |-> IF file.content.doc = None THEN None ELSE Val(file.content.doc)]]

FileOrders(file) ==
    IF file.content.doc = None THEN {<<>>} ELSE PageOrders(Val(file.content.doc).pages)

(***************************************************************************)
(* The service: a file is posted to /extract-layers, and the same bytes    *)
(* are posted again to a freshly started process.                          *)
(***************************************************************************)
Init ==
    /\ pc = "idle"
    /\ arg = None
    /\ ret = None
    /\ handle = "none"
    /\ prev_ret = None

ExtractLayers ==
    /\ pc = "idle"
    /\ \E file \in Files : \E orders \in FileOrders(file) :
           /\ arg' = Some(file)
           /\ ret' = Some(extract_layers(Upload(file), orders).response)
           /\ handle' = extract_layers(Upload(file), orders).handle
    /\ pc' = "done"
    /\ UNCHANGED prev_ret

ExtractLayersAgain ==
    /\ pc = "done"
    /\ \E orders \in FileOrders(Val(arg)) :
           /\ ret' = Some(extract_layers(Upload(Val(arg)), orders).response)
           /\ handle' = extract_layers(Upload(Val(arg)), orders).handle
    /\ prev_ret' = ret
    /\ pc' = "again"
    /\ UNCHANGED arg

Next == ExtractLayers \/ ExtractLayersAgain

Spec == Init /\ [][Next]_vars

(***************************************************************************)
(* Properties of the service.                                              *)
(***************************************************************************)
Answered == pc \in {"done", "again"}
Ok == Answered /\ Val(ret).status = 200
File == Val(arg)
Doc == Val(File.content.doc)
Body == Val(Val(ret).body)

\* the names the catalog pass and the xref scan produce
CatalogNames == {Body.ocg_info.ocgs[i][2].name : i \in 1..Len(Body.ocg_info.ocgs)}
XrefNames ==
    {extract_layers_from_xref(Doc)[i].name : i \in 1..Len(extract_layers_from_xref(Doc))}
NormalPath == Ok /\ Body.layer_usage_analysis # <<>>

\* the catalog's record of a name: the last one of that name in ocg_info
CatalogData(name) ==
    LET ocgs == Body.ocg_info.ocgs
        last == CHOOSE i \in 1..Len(ocgs) :
                    /\ ocgs[i][2].name = name
                    /\ \A j \in (i + 1)..Len(ocgs) : ocgs[j][2].name # name
    IN  ocgs[last][2]

\* C1: a layer whose name both the catalog pass and the xref scan produce has
\* the catalog's visible, locked, intent and usage in the merged record.
C1_CatalogValuesWin ==
    NormalPath =>
        \A i \in 1..Len(Body.layers) :
            LET layer == Body.layers[i]
            IN  (layer.name \in CatalogNames \cap XrefNames) =>
                    /\ layer.visible = CatalogData(layer.name).visible
                    /\ layer.locked = CatalogData(layer.name).locked
                    /\ layer.intent = CatalogData(layer.name).intent
                    /\ layer.usage = CatalogData(layer.name).usage

InputError(file) ==
    \/ ~file.filename_pdf
    \/ file.content.kind \in {"empty", "garbage"}

\* C2: an input error (filename without .pdf, zero-byte upload, bytes that are
\* no PDF) is answered 400, and no document is opened.
C2_InputErrorsGive400 ==
    (Answered /\ InputError(File)) => (Val(ret).status = 400 /\ handle = "none")

\* C3: no request ends with the document handle it opened still open.
C3_HandleClosed == Answered => handle # "open"

\* the entry's Type has the characters O, C, G in a row
TypedOCG(entry) ==
    /\ entry.Type # None
    /\ \E i \in 1..(Len(entry.Type[1]) - 2) :
           <<entry.Type[1][i], entry.Type[1][i + 1], entry.Type[1][i + 2]>> = <<"O", "C", "G">>

NoLayerObjects ==
    /\ Doc.catalog.OCProperties = None
    /\ \A x \in 1..Len(Doc.xref) : ~TypedOCG(Doc.xref[x])

\* the stream has /OC /name, or /Properties << ... /name n g R ... >>
HasMarker(toks) ==
    \/ \E i \in 1..(Len(toks) - 1) :
           /\ toks[i].k = "name" /\ toks[i].v = "OC"
           /\ toks[i + 1].k = "name"
    \/ \E i \in 1..Len(toks) : \E j \in (i + 2)..Len(toks) : \E e \in (j + 2)..Len(toks) :
           /\ toks[i].k = "name" /\ toks[i].v = "Properties"
           /\ toks[i + 1].k = "<<"
           /\ toks[j].k = "name" /\ toks[j + 1].k = "ref"
           /\ toks[e].k = ">>"

MarkedPages ==
    {p \in 1..Len(Doc.pages) :
        /\ ~Doc.pages[p].raises
        /\ \E k \in 1..Len(Doc.pages[p].contents) : HasMarker(Doc.pages[p].contents[k])}

\* C4 as stated: without OCProperties and without OCG-typed xref objects the
\* result has no layers and no pages with layers, whatever the pages contain.
C4_NoLayersNoPages ==
    (Ok /\ NoLayerObjects) =>
        /\ Body.has_layers = FALSE
        /\ Body.layer_count = 0
        /\ Body.layers = <<>>
        /\ Body.pages_with_layers = <<>>

\* C4 (amended): without OCProperties and without OCG-typed xref objects the
\* result has has_layers false, layer_count 0 and no layers, whatever the pages
\* contain; pages_with_layers has one entry for each page whose content streams
\* hold an optional-content marker, and is empty when no page has one.
C4_NoLayersPagesByContent ==
    (Ok /\ NoLayerObjects) =>
        /\ Body.has_layers = FALSE
        /\ Body.layer_count = 0
        /\ Body.layers = <<>>
        /\ (NormalPath =>
               /\ {Body.pages_with_layers[i].page_number :
                      i \in 1..Len(Body.pages_with_layers)} = MarkedPages
               /\ Len(Body.pages_with_layers) = Cardinality(MarkedPages))
        /\ (~NormalPath => Body.pages_with_layers = <<>>)

\* a document without layer objects, with an object of another type, whose
\* page has a marker
C4_Witness ==
    /\ Ok
    /\ NoLayerObjects
    /\ Doc.xref # <<>>
    /\ Body.pages_with_layers # <<>>
    /\ Body.layers = <<>>

\* C6: the same bytes posted twice give the same response, the order of
\* every list included.
C6_Deterministic == pc = "again" => ret = prev_ret

\* the xref entry a layer record of the xref scan was built from
HasUsableName(entry) == entry.Name # None /\ entry.Name[1] \notin {<<>>, <<"(", ")">>}

\* C8: every layer record has a non-empty name; an xref-sourced layer whose
\* object has no usable Name is named "Layer_" + index.
C8_NamesNonEmpty ==
    NormalPath =>
        \A i \in 1..Len(Body.layers) :
            LET layer == Body.layers[i]
            IN  /\ layer.name # <<>>
                /\ (layer.source = "xref_table"
                    /\ ~HasUsableName(Doc.xref[layer.xref_number + 1]))
                       => layer.name = <<"L", "a", "y", "e", "r", "_">>
                                           \o str_int(layer.xref_number)

\* C9: the origin tag names the sources of a layer: catalog only, xref only,
\* or a third tag when both produced the name.
C9_OriginTag ==
    NormalPath =>
        \A i \in 1..Len(Body.layers) :
            LET layer == Body.layers[i]
            IN  /\ (layer.name \in CatalogNames \ XrefNames) => layer.source = "OCG_catalog"
                /\ (layer.name \in XrefNames \ CatalogNames) => layer.source = "xref_table"
                /\ (layer.name \in CatalogNames \cap XrefNames) =>
                       layer.source \notin {"OCG_catalog", "xref_table"}

RECURSIVE SumOfLengths(_, _)
SumOfLengths(vectors, keys) ==
    IF keys = {} THEN 0
    ELSE LET k == CHOOSE x \in keys : TRUE
         IN  Len(vectors[k]) + SumOfLengths(vectors, keys \ {k})

\* C10: every layer record has a vectors map and a vector_count, and
\* vector_count is the sum of the lengths of the per-page arrays of vectors.
C10_VectorsAndCount ==
    NormalPath =>
        \A i \in 1..Len(Body.layers) :
            LET layer == Body.layers[i]
            IN  /\ "vectors" \in DOMAIN layer
                /\ "vector_count" \in DOMAIN layer
                /\ layer.vector_count = SumOfLengths(layer.vectors, DOMAIN layer.vectors)

\* C11: on the normal path and on the fallback path the result has
\* layer_count = the number of entries of layers, has_layers true exactly when
\* layer_count > 0, and no two entries of layers with the same name.
C11_CountMatchesDistinctLayers ==
    Ok =>
        /\ Body.layer_count = Len(Body.layers)
        /\ Body.has_layers = (Body.layer_count > 0)
        /\ \A i, j \in 1..Len(Body.layers) :
               i # j => Body.layers[i].name # Body.layers[j].name

\* the normal path with a layer that both the catalog pass and the xref scan
\* produced under one name
C11_Witness ==
    /\ NormalPath
    /\ CatalogNames \cap XrefNames # {}
    /\ Body.layer_count = 1
    /\ Body.has_layers

====
